---- MODULE Spec2Model ----
(***************************************************************************)
(* Pinyin phonemization for Chinese (piper/phonemize_chinese.py).          *)
(*                                                                         *)
(* A Python str is modelled as a sequence of one-character strings; a      *)
(* character outside Latin-1 is written by its code point ("U+3002" is the *)
(* full-width full stop).  A phoneme symbol is therefore a sequence of     *)
(* characters: the initial zh is <<"z", "h">>.                             *)
(***************************************************************************)
EXTENDS Integers, Sequences, FiniteSets, TLC

VARIABLES
    pc,                 \* position of the operation under check
    phonemes, id_map,   \* arguments of phonemes_to_ids
    ids,                \* result of phonemes_to_ids
    syl,                \* argument of the normalizer / the splitter
    norm1, norm2,       \* normalizer applied once and twice
    parts,              \* result of the splitter: <<ini, fin, tone>>
    sylls, sentence,    \* converter tokens and the sentence they are zipped with
    idx,                \* number of (syl, syl_char) pairs the zip loop has consumed
    sentence_phonemes,  \* phoneme list under construction in phonemize
    text,               \* argument of phonemize / _numbers_to_words
    words,              \* result of _numbers_to_words(text)
    all_phonemes,       \* phonemize(text)
    word_phonemes       \* phonemize(words)

vars == <<pc, phonemes, id_map, ids, syl, norm1, norm2, parts, sylls, sentence,
          idx, sentence_phonemes, text, words, all_phonemes, word_phonemes>>

-----------------------------------------------------------------------------
(* Bounds of the model.                                                    *)

MaxPhonemes == 3
MaxSylLen == 4
MaxSentLen == 1
MaxTokLen == 3
MaxTextLen == 4

-----------------------------------------------------------------------------
(* Python values and str helpers.                                          *)

\* Python's None (a converter sentinel, the tone of a failed split, an
\* omitted id_map).  No character is called "None", so it differs from
\* every str.
None == <<"None">>

\* bool(x) is False for None and for the empty str.
Truthy(x) == x # None /\ x # <<>>

\* All strings over alphabet A of length at most n.
StrUpTo(A, n) == UNION {[1..k -> A] : k \in 0..n}

StartsWith(s, prefix) ==
    /\ Len(prefix) <= Len(s)
    /\ SubSeq(s, 1, Len(prefix)) = prefix

\* str.replace(old, new): left to right, non-overlapping.
RECURSIVE Replace(_, _, _)
Replace(s, old, new) ==
    IF Len(s) < Len(old) THEN s
    ELSE IF StartsWith(s, old)
         THEN new \o Replace(SubSeq(s, Len(old) + 1, Len(s)), old, new)
         ELSE <<Head(s)>> \o Replace(Tail(s), old, new)

LowerAZ ==
    {"a", "b", "c", "d", "e", "f", "g", "h", "i", "j", "k", "l", "m",
     "n", "o", "p", "q", "r", "s", "t", "u", "v", "w", "x", "y", "z"}

ToneDigits == {"1", "2", "3", "4", "5"}

\* re.match(r"^(<cls>+?)([1-5])$", s): one or more characters of cls, then one
\* tone digit, then the end of the string.  Python's "$" also matches just
\* before a final newline, so s may carry one trailing "\n" that belongs to
\* no group.  Value: <<group(1), group(2)>>, or None when there is no match.
SyllableMatch(cls, s) ==
    LET core == IF s # <<>> /\ s[Len(s)] = "\n" THEN SubSeq(s, 1, Len(s) - 1) ELSE s
        n == Len(core)
    IN  IF /\ n >= 2
           /\ core[n] \in ToneDigits
           /\ \A i \in 1..(n - 1) : core[i] \in cls
        THEN <<SubSeq(core, 1, n - 1), <<core[n]>>>>
        ELSE None

-----------------------------------------------------------------------------
(* Module constants.                                                       *)

PAD == <<"_">>
BOS == <<"^">>
EOS == <<"$">>

DEFAULT_PAD_IDS == <<0>>
DEFAULT_BOS_IDS == <<1>>
DEFAULT_EOS_IDS == <<2>>

\* A regression that checks "z" before "zh".
PINYIN_INITIALS_short_first ==
    <<<<"z">>, <<"c">>, <<"s">>, <<"z", "h">>, <<"c", "h">>, <<"s", "h">>,
      <<"b">>, <<"p">>, <<"m">>, <<"f">>, <<"d">>, <<"t">>, <<"n">>, <<"l">>,
      <<"g">>, <<"k">>, <<"h">>, <<"j">>, <<"q">>, <<"x">>, <<"r">>,
      <<"y">>, <<"w">>>>

\* NOTE: Must be sorted longest to shortest
PINYIN_INITIALS ==
    <<<<"z", "h">>, <<"c", "h">>, <<"s", "h">>,
      <<"b">>, <<"p">>, <<"m">>, <<"f">>, <<"d">>, <<"t">>, <<"n">>, <<"l">>,
      <<"g">>, <<"k">>, <<"h">>, <<"j">>, <<"q">>, <<"x">>, <<"r">>,
      <<"z">>, <<"c">>, <<"s">>, <<"y">>, <<"w">>>>

PHONEME_TO_ID ==
    (PAD :> DEFAULT_PAD_IDS) @@ (BOS :> DEFAULT_BOS_IDS) @@ (EOS :> DEFAULT_EOS_IDS)
    @@ (<<"Ø">> :> <<3>>) @@ (<<"b">> :> <<4>>) @@ (<<"p">> :> <<5>>) @@ (<<"m">> :> <<6>>)
    @@ (<<"f">> :> <<7>>) @@ (<<"d">> :> <<8>>) @@ (<<"t">> :> <<9>>) @@ (<<"n">> :> <<10>>)
    @@ (<<"l">> :> <<11>>) @@ (<<"g">> :> <<12>>) @@ (<<"k">> :> <<13>>) @@ (<<"h">> :> <<14>>)
    @@ (<<"j">> :> <<15>>) @@ (<<"q">> :> <<16>>) @@ (<<"x">> :> <<17>>) @@ (<<"z", "h">> :> <<18>>)
    @@ (<<"c", "h">> :> <<19>>) @@ (<<"s", "h">> :> <<20>>) @@ (<<"r">> :> <<21>>) @@ (<<"z">> :> <<22>>)
    @@ (<<"c">> :> <<23>>) @@ (<<"s">> :> <<24>>) @@ (<<"y">> :> <<25>>) @@ (<<"w">> :> <<26>>)
    @@ (<<"a">> :> <<27>>) @@ (<<"o">> :> <<28>>) @@ (<<"e">> :> <<29>>) @@ (<<"a", "i">> :> <<30>>)
    @@ (<<"e", "i">> :> <<31>>) @@ (<<"a", "o">> :> <<32>>) @@ (<<"o", "u">> :> <<33>>) @@ (<<"a", "n">> :> <<34>>)
    @@ (<<"e", "n">> :> <<35>>) @@ (<<"a", "n", "g">> :> <<36>>) @@ (<<"e", "n", "g">> :> <<37>>) @@ (<<"o", "n", "g">> :> <<38>>)
    @@ (<<"i">> :> <<39>>) @@ (<<"i", "a">> :> <<40>>) @@ (<<"i", "e">> :> <<41>>) @@ (<<"i", "a", "o">> :> <<42>>)
    @@ (<<"i", "u">> :> <<43>>) @@ (<<"i", "a", "n">> :> <<44>>) @@ (<<"i", "n">> :> <<45>>) @@ (<<"i", "a", "n", "g">> :> <<46>>)
    @@ (<<"i", "n", "g">> :> <<47>>) @@ (<<"i", "o", "n", "g">> :> <<48>>) @@ (<<"u">> :> <<49>>) @@ (<<"u", "a">> :> <<50>>)
    @@ (<<"u", "o">> :> <<51>>) @@ (<<"u", "a", "i">> :> <<52>>) @@ (<<"u", "i">> :> <<53>>) @@ (<<"u", "a", "n">> :> <<54>>)
    @@ (<<"u", "n">> :> <<55>>) @@ (<<"u", "a", "n", "g">> :> <<56>>) @@ (<<"u", "e", "n", "g">> :> <<57>>) @@ (<<"v">> :> <<58>>)
    @@ (<<"v", "e">> :> <<59>>) @@ (<<"v", "a", "n">> :> <<60>>) @@ (<<"v", "n">> :> <<61>>) @@ (<<"e", "r">> :> <<62>>)
    @@ (<<"u", "e">> :> <<63>>) @@ (<<"1">> :> <<64>>) @@ (<<"2">> :> <<65>>) @@ (<<"3">> :> <<66>>)
    @@ (<<"4">> :> <<67>>) @@ (<<"5">> :> <<68>>) @@ (<<"U+3002">> :> <<69>>) @@ (<<".">> :> <<69>>)
    @@ (<<"U+FF1F">> :> <<70>>) @@ (<<"?">> :> <<70>>) @@ (<<"U+FF01">> :> <<71>>) @@ (<<"!">> :> <<71>>)
    @@ (<<"U+2014">> :> <<72>>) @@ (<<"U+2026">> :> <<72>>) @@ (<<"U+3001">> :> <<72>>) @@ (<<"U+FF0C">> :> <<72>>)
    @@ (<<",">> :> <<72>>) @@ (<<"U+FF1A">> :> <<72>>) @@ (<<":">> :> <<72>>) @@ (<<"U+FF1B">> :> <<72>>)
    @@ (<<";">> :> <<72>>) @@ (<<" ">> :> <<72>>)

GROUP_END_PHONEMES ==
    {<<"1">>, <<"2">>, <<"3">>, <<"4">>, <<"5">>,
     <<"U+3002">>, <<"U+FF1F">>, <<"U+FF01">>,
     <<".">>, <<"?">>, <<"!">>,
     <<"U+2014">>, <<"U+2026">>, <<"U+3001">>, <<"U+FF0C">>, <<"U+FF1A">>, <<"U+FF1B">>,
     <<",">>, <<":">>, <<";">>,
     <<" ">>}

-----------------------------------------------------------------------------
(* phonemes_to_ids                                                         *)

\* "if not id_map": None and an empty mapping both select the default table.
EffectiveMap(m) == IF m = None \/ DOMAIN m = {} THEN PHONEME_TO_ID ELSE m

\* The for loop over phonemes, on the table m.
RECURSIVE EncodeLoop(_, _)
EncodeLoop(ps, m) ==
    IF ps = <<>> THEN <<>>
    ELSE LET phoneme == Head(ps)
         IN  IF phoneme \notin DOMAIN m
             THEN EncodeLoop(Tail(ps), m)
             ELSE m[phoneme]
                  \o (IF phoneme \in GROUP_END_PHONEMES THEN m[PAD] ELSE <<>>)
                  \o EncodeLoop(Tail(ps), m)

\* A regression: a missing phoneme ends the loop ("break" for "continue").
RECURSIVE EncodeLoopBreak(_, _)
EncodeLoopBreak(ps, m) ==
    IF ps = <<>> THEN <<>>
    ELSE LET phoneme == Head(ps)
         IN  IF phoneme \notin DOMAIN m
             THEN <<>>
             ELSE m[phoneme]
                  \o (IF phoneme \in GROUP_END_PHONEMES THEN m[PAD] ELSE <<>>)
                  \o EncodeLoopBreak(Tail(ps), m)

phonemes_to_ids_break(ps, m) ==
    LET t == EffectiveMap(m)
    IN  t[BOS] \o EncodeLoopBreak(ps, t) \o t[EOS]

\* A regression: a missing phoneme returns what was encoded so far.
phonemes_to_ids_return(ps, m) ==
    LET t == EffectiveMap(m)
    IN  IF \E i \in 1..Len(ps) : ps[i] \notin DOMAIN t
        THEN t[BOS] \o EncodeLoopBreak(ps, t)
        ELSE t[BOS] \o EncodeLoop(ps, t) \o t[EOS]

\* A regression: PAD after every phoneme instead of after every group.
RECURSIVE EncodeLoopPadAll(_, _)
EncodeLoopPadAll(ps, m) ==
    IF ps = <<>> THEN <<>>
    ELSE LET phoneme == Head(ps)
         IN  IF phoneme \notin DOMAIN m
             THEN EncodeLoopPadAll(Tail(ps), m)
             ELSE m[phoneme] \o m[PAD] \o EncodeLoopPadAll(Tail(ps), m)

phonemes_to_ids_pad_all(ps, m) ==
    LET t == EffectiveMap(m)
    IN  t[BOS] \o EncodeLoopPadAll(ps, t) \o t[EOS]

phonemes_to_ids(ps, m) ==
    LET t == EffectiveMap(m)
    IN  t[BOS] \o EncodeLoop(ps, t) \o t[EOS]

-----------------------------------------------------------------------------
(* _normalize_g2pw_syllable and _split_initial_final_tone                  *)

\* A regression: "ü" rewritten to "u" instead of "v".
_normalize_g2pw_syllable_u(s) ==
    LET m == SyllableMatch(LowerAZ \cup {"ü", "v", ":"}, s)
    IN  IF m = None THEN s
        ELSE Replace(Replace(m[1], <<"u", ":">>, <<"v">>), <<"ü">>, <<"u">>) \o m[2]

_normalize_g2pw_syllable(s) ==
    LET m == SyllableMatch(LowerAZ \cup {"ü", "v", ":"}, s)
    IN  IF m = None THEN s
        ELSE Replace(Replace(m[1], <<"u", ":">>, <<"v">>), <<"ü">>, <<"v">>) \o m[2]

\* The for loop over PINYIN_INITIALS from entry k on: the first candidate that
\* base starts with, or "" when the list is exhausted.
RECURSIVE FirstInitial(_, _)
FirstInitial(base, k) ==
    IF k > Len(PINYIN_INITIALS) THEN <<>>
    ELSE IF StartsWith(base, PINYIN_INITIALS[k]) THEN PINYIN_INITIALS[k]
         ELSE FirstInitial(base, k + 1)

\* Value: <<ini, fin, tone>>; <<"", "", None>> when the pattern fails.
_split_initial_final_tone(s) ==
    LET m == SyllableMatch(LowerAZ \cup {"v", "ü"}, s)
    IN  IF m = None THEN <<<<>>, <<>>, None>>
        ELSE LET base == m[1]
                 ini == FirstInitial(base, 1)
                 fin == IF ini # <<>> THEN SubSeq(base, Len(ini) + 1, Len(base)) ELSE base
             IN  <<ini, fin, m[2]>>

-----------------------------------------------------------------------------
(* _numbers_to_words                                                       *)

Digits == {"0", "1", "2", "3", "4", "5", "6", "7", "8", "9"}

\* Last index of the run of digits that starts at i; i - 1 when text[i] is
\* no digit (greedy \d+).
RECURSIVE DigitsEnd(_, _)
DigitsEnd(t, i) ==
    IF i <= Len(t) /\ t[i] \in Digits THEN DigitsEnd(t, i + 1) ELSE i - 1

\* A regression: the pattern -?\d+(?:\.\d*)?, which takes a "." that no digit
\* follows.
NumeralEndLooseDot(t, i) ==
    LET s == IF t[i] = "-" THEN i + 1 ELSE i
        d == DigitsEnd(t, s)
    IN  IF d < s THEN 0
        ELSE IF d + 1 <= Len(t) /\ t[d + 1] = "."
             THEN DigitsEnd(t, d + 2)
             ELSE d

\* The pattern -?\d+(?:\.\d+)? tried at index i: the index of the last
\* character of the match, 0 when there is none.
NumeralEnd(t, i) ==
    LET s == IF t[i] = "-" THEN i + 1 ELSE i
        d == DigitsEnd(t, s)
    IN  IF d < s THEN 0
        ELSE IF d + 1 <= Len(t) /\ t[d + 1] = "." /\ DigitsEnd(t, d + 2) >= d + 2
             THEN DigitsEnd(t, d + 2)
             ELSE d

\* The numeral-formatting collaborator, RbnfEngine.for_language("zh"): it is
\* external, and is modelled as reading the numeral out sign by sign in Han
\* characters (U+8D1F "negative", U+70B9 "point", U+96F6 zero, ...), so that
\* the word form holds no digit, minus sign or decimal point.
NumberWord(c) ==
    CASE c = "-" -> "U+8D1F"
      [] c = "." -> "U+70B9"
      [] c = "0" -> "U+96F6"
      [] c = "1" -> "U+4E00"
      [] c = "2" -> "U+4E8C"
      [] OTHER   -> "U+4E94"

format_number(numeral) == [k \in 1..Len(numeral) |-> NumberWord(numeral[k])]

\* re.sub(pattern, repl, text) from index i on: leftmost matches, scanned
\* left to right, each replaced by format_number(m.group(0)).
RECURSIVE SubFrom(_, _)
SubFrom(t, i) ==
    IF i > Len(t) THEN <<>>
    ELSE LET j == NumeralEnd(t, i)
         IN  IF j = 0
             THEN <<t[i]>> \o SubFrom(t, i + 1)
             ELSE format_number(SubSeq(t, i, j)) \o SubFrom(t, j + 1)

\* A regression: re.sub(..., count=1), only the first numeral is replaced.
RECURSIVE SubFirst(_, _)
SubFirst(t, i) ==
    IF i > Len(t) THEN <<>>
    ELSE LET j == NumeralEnd(t, i)
         IN  IF j = 0
             THEN <<t[i]>> \o SubFirst(t, i + 1)
             ELSE format_number(SubSeq(t, i, j)) \o SubSeq(t, j + 1, Len(t))

_numbers_to_words_first(t) == SubFirst(t, 1)

_numbers_to_words(t) == SubFrom(t, 1)

-----------------------------------------------------------------------------
(* ChinesePhonemizer.phonemize                                             *)

\* The outcome of a failed "assert sym, sym" in place of a sentence's phoneme
\* list, and in place of the list of lists phonemize returns.
AssertionError == <<<<"AssertionError">>>>

Raised == <<AssertionError>>

ZERO_INITIAL == <<"Ø">>

\* A regression: the "if not fin_p" guard is missing, a failed split falls
\* through to the three appends.
PairPhonemesNoGuard(s, c) ==
    IF s = None
    THEN IF <<c>> \in DOMAIN PHONEME_TO_ID THEN <<<<c>>>> ELSE <<>>
    ELSE LET n == _normalize_g2pw_syllable(s)
             p == _split_initial_final_tone(n)
             ini_p == IF ~Truthy(p[1]) THEN ZERO_INITIAL ELSE p[1]
         IN  IF Truthy(ini_p) /\ Truthy(p[2]) /\ Truthy(p[3])
             THEN <<ini_p, p[2], p[3]>>
             ELSE AssertionError

\* A regression: the "if not ini_p" substitution is missing.
PairPhonemesNoZero(s, c) ==
    IF s = None
    THEN IF <<c>> \in DOMAIN PHONEME_TO_ID THEN <<<<c>>>> ELSE <<>>
    ELSE LET n == _normalize_g2pw_syllable(s)
             p == _split_initial_final_tone(n)
         IN  IF ~Truthy(p[2]) THEN <<n>>
             ELSE IF Truthy(p[1]) /\ Truthy(p[2]) /\ Truthy(p[3])
                  THEN <<p[1], p[2], p[3]>>
                  ELSE AssertionError

\* One iteration of "for syl, syl_char in zip(sylls, sentence)": the symbols
\* it appends to sentence_phonemes, or AssertionError.
PairPhonemes(s, c) ==
    IF s = None
    THEN IF <<c>> \in DOMAIN PHONEME_TO_ID THEN <<<<c>>>> ELSE <<>>
    ELSE LET n == _normalize_g2pw_syllable(s)
             p == _split_initial_final_tone(n)
             ini_p == IF ~Truthy(p[1]) THEN ZERO_INITIAL ELSE p[1]
         IN  IF ~Truthy(p[2]) THEN <<n>>
             ELSE IF Truthy(ini_p) /\ Truthy(p[2]) /\ Truthy(p[3])
                  THEN <<ini_p, p[2], p[3]>>
                  ELSE AssertionError

\* zip(sylls, sentence) stops at the shorter of the two.
ZipLen(ss, st) == IF Len(ss) <= Len(st) THEN Len(ss) ELSE Len(st)

\* The zip loop from pair k on.
RECURSIVE SentenceLoop(_, _, _)
SentenceLoop(ss, st, k) ==
    IF k > ZipLen(ss, st) THEN <<>>
    ELSE LET here == PairPhonemes(ss[k], st[k])
             rest == SentenceLoop(ss, st, k + 1)
         IN  IF here = AssertionError \/ rest = AssertionError
             THEN AssertionError
             ELSE here \o rest

\* The converter collaborator, G2PWConverter(style="pinyin"): it is external,
\* and is modelled as one token per character, a pinyin syllable for a Han
\* character and None for any other.
HanPinyin ==
    ("U+6211" :> <<"w", "o", "3">>) @@ ("U+8D1F" :> <<"f", "u", "4">>)
    @@ ("U+70B9" :> <<"d", "i", "a", "n", "3">>) @@ ("U+96F6" :> <<"l", "i", "n", "g", "2">>)
    @@ ("U+4E00" :> <<"y", "i", "1">>) @@ ("U+4E8C" :> <<"e", "r", "4">>)
    @@ ("U+4E94" :> <<"w", "u", "3">>) @@ ("U+7EFF" :> <<"l", "u", ":", "4">>)

g2p(st) == [k \in 1..Len(st) |-> IF st[k] \in DOMAIN HanPinyin THEN HanPinyin[st[k]] ELSE None]

\* The segmenter collaborator, stream_to_sentences: it is external.  The
\* texts of this model hold no white space, hence no sentence boundary: a
\* non-empty text is one sentence, an empty text is none.
stream_to_sentences(t) == IF t = <<>> THEN <<>> ELSE <<t>>

QuoteChars == {"U+201C", "U+201D", "\""}

NotQuote(c) == c \notin QuoteChars

\* The body of "for sentence in stream_to_sentences([text])" for sentences
\* k, k+1, ...
RECURSIVE SentencesLoop(_, _)
SentencesLoop(sentences, k) ==
    IF k > Len(sentences) THEN <<>>
    ELSE LET st == _numbers_to_words(sentences[k])
             ph == SentenceLoop(g2p(st), st, 1)
             rest == SentencesLoop(sentences, k + 1)
         IN  IF ph = AssertionError \/ rest = Raised
             THEN Raised
             ELSE <<ph>> \o rest

phonemize(t) == SentencesLoop(stream_to_sentences(SelectSeq(t, NotQuote)), 1)

-----------------------------------------------------------------------------
(* Inputs of the model.                                                    *)

\* Phoneme lists given to phonemes_to_ids: control symbols, an initial, a
\* final, tones, pause marks, and "G", which no table holds.
EncSymbols ==
    {PAD, BOS, ZERO_INITIAL, <<"z", "h">>, <<"a">>, <<"1">>, <<"5">>,
     <<"U+3002">>, <<" ">>, <<"G">>}

\* Caller-supplied tables: another vocabulary with multi-id entries and no
\* neutral tone, and one that holds the control symbols only.
AltMap ==
    (PAD :> <<9>>) @@ (BOS :> <<7, 8>>) @@ (EOS :> <<6, 7>>)
    @@ (<<"z", "h">> :> <<20, 21>>) @@ (<<"a">> :> <<22>>) @@ (<<"1">> :> <<23>>)
    @@ (<<"U+3002">> :> <<24>>) @@ (<<"G">> :> <<25>>)

ControlMap == (PAD :> <<0>>) @@ (BOS :> <<1>>) @@ (EOS :> <<2>>)

IdMaps == {None, AltMap, ControlMap}

\* Arguments of the normalizer and of the splitter.
NormAlphabet == {"u", ":", "ü", "v", "3", "\n"}

SplitAlphabet == {"z", "c", "s", "h", "a", "1"}

SylInputs == StrUpTo(NormAlphabet, MaxSylLen) \cup StrUpTo(SplitAlphabet, MaxSylLen)

\* Converter tokens: every string over a small alphabet, and some longer ones.
TokAlphabet == {"z", "h", "ü", "1"}

ExtraTokens ==
    {<<"a", "1">>, <<"z", "h", "a", "n", "g", "1">>, <<"n", "u", ":", "3">>,
     <<"ü", ":", "1">>, <<"a", "1", "\n">>, <<"G">>, <<"r", "5">>}

Tokens == StrUpTo(TokAlphabet, MaxTokLen) \cup ExtraTokens

HanChar == "U+6211"

\* Characters the converter has no syllable for.
RawChars == {"_", "^", "$", "a", "z", "1", "U+3002", ",", " ", "G", HanChar}

\* (syl_char, syl) pairs: any token for a Han character, None for any
\* character.
ConverterPairs ==
    {<<c, None>> : c \in RawChars} \cup {<<HanChar, t>> : t \in Tokens}

\* Texts given to phonemize and _numbers_to_words.
NumAlphabet == {"1", "-", ".", "G", "\"", "U+3002"}

-----------------------------------------------------------------------------
(* Specification of phonemes_to_ids.                                       *)

InitEnc ==
    /\ pc = "start"
    /\ phonemes \in StrUpTo(EncSymbols, MaxPhonemes)
    /\ id_map \in IdMaps
    /\ ids = <<>>
    /\ syl = <<>> /\ norm1 = <<>> /\ norm2 = <<>> /\ parts = <<>>
    /\ sylls = <<>> /\ sentence = <<>> /\ idx = 0 /\ sentence_phonemes = <<>>
    /\ text = <<>> /\ words = <<>> /\ all_phonemes = <<>> /\ word_phonemes = <<>>

Encode ==
    /\ pc = "start"
    /\ ids' = phonemes_to_ids(phonemes, id_map)
    /\ pc' = "encoded"
    /\ UNCHANGED <<phonemes, id_map, syl, norm1, norm2, parts, sylls, sentence,
                   idx, sentence_phonemes, text, words, all_phonemes, word_phonemes>>

NextEnc == Encode

SpecEnc == InitEnc /\ [][NextEnc]_vars

-----------------------------------------------------------------------------
(* Specification of the normalizer and the splitter.                       *)

InitSyl ==
    /\ pc = "start"
    /\ syl \in SylInputs
    /\ norm1 = <<>> /\ norm2 = <<>> /\ parts = <<>>
    /\ phonemes = <<>> /\ id_map = None /\ ids = <<>>
    /\ sylls = <<>> /\ sentence = <<>> /\ idx = 0 /\ sentence_phonemes = <<>>
    /\ text = <<>> /\ words = <<>> /\ all_phonemes = <<>> /\ word_phonemes = <<>>

Normalize ==
    /\ pc = "start"
    /\ norm1' = _normalize_g2pw_syllable(syl)
    /\ pc' = "normalized"
    /\ UNCHANGED <<phonemes, id_map, ids, syl, norm2, parts, sylls, sentence,
                   idx, sentence_phonemes, text, words, all_phonemes, word_phonemes>>

NormalizeAgain ==
    /\ pc = "normalized"
    /\ norm2' = _normalize_g2pw_syllable(norm1)
    /\ pc' = "renormalized"
    /\ UNCHANGED <<phonemes, id_map, ids, syl, norm1, parts, sylls, sentence,
                   idx, sentence_phonemes, text, words, all_phonemes, word_phonemes>>

Split ==
    /\ pc = "start"
    /\ parts' = _split_initial_final_tone(syl)
    /\ pc' = "split"
    /\ UNCHANGED <<phonemes, id_map, ids, syl, norm1, norm2, sylls, sentence,
                   idx, sentence_phonemes, text, words, all_phonemes, word_phonemes>>

NextSyl == Normalize \/ NormalizeAgain \/ Split

SpecSyl == InitSyl /\ [][NextSyl]_vars

-----------------------------------------------------------------------------
(* Specification of the zip loop of phonemize, followed by the encoding of *)
(* the sentence it returns.                                                *)

InitPhon ==
    /\ pc = "loop"
    /\ \E pairs \in StrUpTo(ConverterPairs, MaxSentLen) :
            /\ sentence = [k \in 1..Len(pairs) |-> pairs[k][1]]
            /\ sylls = [k \in 1..Len(pairs) |-> pairs[k][2]]
    /\ idx = 0
    /\ sentence_phonemes = <<>>
    /\ all_phonemes = <<>>
    /\ ids = <<>>
    /\ phonemes = <<>> /\ id_map = None
    /\ syl = <<>> /\ norm1 = <<>> /\ norm2 = <<>> /\ parts = <<>>
    /\ text = <<>> /\ words = <<>> /\ word_phonemes = <<>>

\* The loop body on the next pair: append, or leave by the assertion.
LoopBody ==
    LET out == PairPhonemes(sylls[idx + 1], sentence[idx + 1])
    IN  IF out = AssertionError
        THEN /\ pc' = "AssertionError"
             /\ UNCHANGED <<idx, sentence_phonemes>>
        ELSE /\ pc' = "loop"
             /\ idx' = idx + 1
             /\ sentence_phonemes' = sentence_phonemes \o out

\* if syl is None: punctuation
Punctuation ==
    /\ pc = "loop"
    /\ idx < ZipLen(sylls, sentence)
    /\ sylls[idx + 1] = None
    /\ LoopBody
    /\ UNCHANGED <<phonemes, id_map, ids, syl, norm1, norm2, parts, sylls, sentence,
                   text, words, all_phonemes, word_phonemes>>

\* if not fin_p: not a normal pinyin syllable
Opaque ==
    /\ pc = "loop"
    /\ idx < ZipLen(sylls, sentence)
    /\ sylls[idx + 1] # None
    /\ ~Truthy(_split_initial_final_tone(_normalize_g2pw_syllable(sylls[idx + 1]))[2])
    /\ LoopBody
    /\ UNCHANGED <<phonemes, id_map, ids, syl, norm1, norm2, parts, sylls, sentence,
                   text, words, all_phonemes, word_phonemes>>

\* for sym in (ini_p, fin_p, tone): assert sym; append
Syllable ==
    /\ pc = "loop"
    /\ idx < ZipLen(sylls, sentence)
    /\ sylls[idx + 1] # None
    /\ Truthy(_split_initial_final_tone(_normalize_g2pw_syllable(sylls[idx + 1]))[2])
    /\ LoopBody
    /\ UNCHANGED <<phonemes, id_map, ids, syl, norm1, norm2, parts, sylls, sentence,
                   text, words, all_phonemes, word_phonemes>>

\* all_phonemes.append(sentence_phonemes); return all_phonemes
Return ==
    /\ pc = "loop"
    /\ idx = ZipLen(sylls, sentence)
    /\ all_phonemes' = <<sentence_phonemes>>
    /\ pc' = "returned"
    /\ UNCHANGED <<phonemes, id_map, ids, syl, norm1, norm2, parts, sylls, sentence,
                   idx, sentence_phonemes, text, words, word_phonemes>>

\* The caller encodes the sentence: phonemes_to_ids(phonemes[0])
EncodeSentence ==
    /\ pc = "returned"
    /\ ids' = phonemes_to_ids(all_phonemes[1], None)
    /\ pc' = "encoded"
    /\ UNCHANGED <<phonemes, id_map, syl, norm1, norm2, parts, sylls, sentence,
                   idx, sentence_phonemes, text, words, all_phonemes, word_phonemes>>

NextPhon == Punctuation \/ Opaque \/ Syllable \/ Return \/ EncodeSentence

SpecPhon == InitPhon /\ [][NextPhon]_vars

-----------------------------------------------------------------------------
(* Specification of numeral substitution within phonemize.                 *)

InitNum ==
    /\ pc = "start"
    /\ text \in StrUpTo(NumAlphabet, MaxTextLen)
    /\ words = <<>> /\ all_phonemes = <<>> /\ word_phonemes = <<>>
    /\ phonemes = <<>> /\ id_map = None /\ ids = <<>>
    /\ syl = <<>> /\ norm1 = <<>> /\ norm2 = <<>> /\ parts = <<>>
    /\ sylls = <<>> /\ sentence = <<>> /\ idx = 0 /\ sentence_phonemes = <<>>

NumbersToWords ==
    /\ pc = "start"
    /\ words' = _numbers_to_words(text)
    /\ pc' = "substituted"
    /\ UNCHANGED <<phonemes, id_map, ids, syl, norm1, norm2, parts, sylls, sentence,
                   idx, sentence_phonemes, text, all_phonemes, word_phonemes>>

\* phonemize(number_text)
Phonemize ==
    /\ pc = "substituted"
    /\ all_phonemes' = phonemize(text)
    /\ pc' = "phonemized"
    /\ UNCHANGED <<phonemes, id_map, ids, syl, norm1, norm2, parts, sylls, sentence,
                   idx, sentence_phonemes, text, words, word_phonemes>>

\* phonemize(word_text)
PhonemizeWords ==
    /\ pc = "phonemized"
    /\ word_phonemes' = phonemize(words)
    /\ pc' = "done"
    /\ UNCHANGED <<phonemes, id_map, ids, syl, norm1, norm2, parts, sylls, sentence,
                   idx, sentence_phonemes, text, words, all_phonemes>>

NextNum == NumbersToWords \/ Phonemize \/ PhonemizeWords

SpecNum == InitNum /\ [][NextNum]_vars

-----------------------------------------------------------------------------
(* Properties of phonemes_to_ids, under SpecEnc.                           *)

Range(s) == {s[i] : i \in DOMAIN s}

EndsWith(s, suffix) ==
    /\ Len(suffix) <= Len(s)
    /\ SubSeq(s, Len(s) - Len(suffix) + 1, Len(s)) = suffix

\* C1: whatever the phoneme list (empty, or holding symbols the table lacks)
\* and whatever the table with BOS, EOS and PAD, the ids returned begin with
\* the ids of BOS and end with the ids of EOS.
C1_BosFirstEosLast ==
    pc = "encoded" =>
        LET t == EffectiveMap(id_map)
        IN  /\ StartsWith(ids, t[BOS])
            /\ EndsWith(ids, t[EOS])
            /\ Len(ids) >= Len(t[BOS]) + Len(t[EOS])

C1_Witness ==
    /\ pc = "encoded"
    /\ id_map = AltMap
    /\ Len(phonemes) = MaxPhonemes
    /\ phonemes[1] = <<"a">>
    /\ phonemes[MaxPhonemes] = <<"5">>

\* Ids that the default table gives to the symbols of the Group-End Set.
GroupEndIds == UNION {Range(PHONEME_TO_ID[g]) : g \in GROUP_END_PHONEMES}

\* With the default table, a PAD id stands at position p of the output if and
\* only if position p - 1 holds the id of a Group-End symbol.
PadOnlyAfterGroupEnd ==
    \A p \in 1..Len(ids) :
        (ids[p] \in Range(PHONEME_TO_ID[PAD])) <=> (p > 1 /\ ids[p - 1] \in GroupEndIds)

\* C2 as stated: for any phoneme list, a PAD id occurs exactly at the positions
\* that immediately follow the ids of a Group-End symbol of the input.
C2_PadAfterGroupEndOnly ==
    (pc = "encoded" /\ id_map = None) => PadOnlyAfterGroupEnd

\* C2 as amended: the same, for phoneme lists that do not hold the PAD symbol
\* itself (whose own ids are PAD ids that follow no Group-End symbol).
C2_PadAfterGroupEndOnlyNoPadSymbol ==
    (pc = "encoded" /\ id_map = None /\ PAD \notin Range(phonemes)) => PadOnlyAfterGroupEnd

C2_Witness ==
    /\ pc = "encoded"
    /\ id_map = None
    /\ phonemes = <<<<"z", "h">>, <<"a">>, <<"1">>>>
    /\ ids = <<1, 18, 27, 64, 0, 2>>

\* The phoneme list with every occurrence of x removed.
Without(ps, x) == SelectSeq(ps, LAMBDA p : p # x)

\* C4: if the list holds a symbol x that the table lacks, the result is exactly
\* the result for the list without x.
C4_MissingSymbolOmitted ==
    pc = "encoded" =>
        \A x \in Range(phonemes) :
            x \notin DOMAIN EffectiveMap(id_map) =>
                ids = phonemes_to_ids(Without(phonemes, x), id_map)

C4_Witness ==
    /\ pc = "encoded"
    /\ id_map = AltMap
    /\ phonemes = <<<<"a">>, <<"5">>, <<"1">>>>
    /\ ids = <<7, 8, 22, 23, 9, 6, 7>>

-----------------------------------------------------------------------------
(* Properties of the normalizer and the splitter, under SpecSyl.           *)

HasUColon(s) == \E i \in 1..(Len(s) - 1) : s[i] = "u" /\ s[i + 1] = ":"

\* C5: normalizing a second time changes nothing, and when the first pass
\* rewrote the token it left neither "u:" nor "ü" behind.
C5_NormalizeIdempotent ==
    pc = "renormalized" =>
        /\ norm2 = norm1
        /\ (norm1 # syl) => (~HasUColon(norm1) /\ "ü" \notin Range(norm1))

C5_Witness ==
    /\ pc = "renormalized"
    /\ syl = <<"u", "ü", ":", "3">>
    /\ norm1 = <<"u", "v", ":", "3">>

\* C6: on a syllable that matches the splitter's pattern, the initial is the
\* longest entry of PINYIN_INITIALS that the base starts with ("" if there is
\* none), so zh, ch, sh are never split as z, c, s plus a final in h.
C6_LongestInitial ==
    (pc = "split" /\ parts[3] # None) =>
        LET ini == parts[1]
            fin == parts[2]
            base == ini \o fin
            cands == {c \in Range(PINYIN_INITIALS) : StartsWith(base, c)}
        IN  /\ StartsWith(syl, base \o parts[3])
            /\ (cands = {}) => (ini = <<>>)
            /\ (cands # {}) => (ini \in cands /\ \A c \in cands : Len(c) <= Len(ini))
            /\ ~(ini \in {<<"z">>, <<"c">>, <<"s">>} /\ fin # <<>> /\ fin[1] = "h")

C6_Witness ==
    /\ pc = "split"
    /\ syl = <<"z", "h", "a", "1">>
    /\ parts = <<<<"z", "h">>, <<"a">>, <<"1">>>>

-----------------------------------------------------------------------------
(* Properties of the zip loop of phonemize, under SpecPhon.                *)

\* The loop is about to handle a pair whose token is a candidate syllable.
AtToken == pc = "loop" /\ idx < ZipLen(sylls, sentence) /\ sylls[idx + 1] # None

\* The loop is about to handle a pair whose token is the sentinel.
AtSentinel == pc = "loop" /\ idx < ZipLen(sylls, sentence) /\ sylls[idx + 1] = None

NextNormalized == _normalize_g2pw_syllable(sylls[idx + 1])

NextSplit == _split_initial_final_tone(NextNormalized)

\* Number of PAD ids (of the default table) in an id sequence.
PadCount(s) == Cardinality({p \in 1..Len(s) : s[p] \in Range(PHONEME_TO_ID[PAD])})

\* C8: a token that splits with a non-empty final appends exactly initial (or
\* the zero-initial marker), final, tone; the three parts spell the normalized
\* token; the tone is the only Group-End symbol of the three, and the group
\* encodes with exactly one PAD id, right after the tone.
C8_SyllableGroup ==
    [][ (AtToken /\ NextSplit[2] # <<>>) =>
            LET ini == IF NextSplit[1] = <<>> THEN ZERO_INITIAL ELSE NextSplit[1]
                fin == NextSplit[2]
                tone == NextSplit[3]
                enc == phonemes_to_ids(<<ini, fin, tone>>, None)
            IN  /\ sentence_phonemes' = sentence_phonemes \o <<ini, fin, tone>>
                /\ NextSplit[1] \o fin \o tone = NextNormalized
                /\ tone \in GROUP_END_PHONEMES
                /\ ini \notin GROUP_END_PHONEMES
                /\ fin \notin GROUP_END_PHONEMES
                /\ PadCount(enc) = 1
                /\ SubSeq(enc, Len(enc) - 2, Len(enc) - 1) = PHONEME_TO_ID[tone] \o PHONEME_TO_ID[PAD]
      ]_vars

C8_Witness ==
    /\ pc = "encoded"
    /\ sylls = <<<<"ü", "1">>>>
    /\ all_phonemes = <<<<ZERO_INITIAL, <<"v">>, <<"1">>>>>>
    /\ ids = <<1, 3, 58, 64, 0, 2>>

\* Long-pause marks, short-pause marks and space.
PauseClass == GROUP_END_PHONEMES \ {<<d>> : d \in ToneDigits}

\* C9: a character whose token is the sentinel is dropped, or appended and
\* then a pause-class symbol; control symbols, initials, finals and tones are
\* never emitted for it.
C9_SentinelEmitsPauseOnly ==
    [][ AtSentinel =>
            \/ sentence_phonemes' = sentence_phonemes
            \/ /\ sentence_phonemes' = Append(sentence_phonemes, <<sentence[idx + 1]>>)
               /\ <<sentence[idx + 1]>> \in PauseClass
      ]_vars

\* C10: the assertion never fails; a token whose split has an empty final is
\* appended as one symbol, the normalized token; on the other path the three
\* symbols appended are non-empty strings.
C10_AssertNeverFails ==
    [][ /\ pc = "loop" => pc' # "AssertionError"
        /\ (AtToken /\ NextSplit[2] = <<>>) =>
                sentence_phonemes' = Append(sentence_phonemes, NextNormalized)
        /\ (AtToken /\ NextSplit[2] # <<>>) =>
                /\ Len(sentence_phonemes') = Len(sentence_phonemes) + 3
                /\ \A k \in (Len(sentence_phonemes) + 1)..Len(sentence_phonemes') :
                        Truthy(sentence_phonemes'[k])
      ]_vars

C10_Witness ==
    /\ pc = "returned"
    /\ sylls = <<<<"r", "5">>>>
    /\ all_phonemes = <<<<<<"r", "5">>>>>>

-----------------------------------------------------------------------------
(* Properties of numeral substitution, under SpecNum.                      *)

AllDigits(s) == s # <<>> /\ \A i \in 1..Len(s) : s[i] \in Digits

\* s reads: optional minus, digits, optional decimal point and digits.
IsNumeral(s) ==
    LET b == IF s # <<>> /\ s[1] = "-" THEN Tail(s) ELSE s
    IN  \/ AllDigits(b)
        \/ \E p \in 2..(Len(b) - 1) :
                /\ b[p] = "."
                /\ AllDigits(SubSeq(b, 1, p - 1))
                /\ AllDigits(SubSeq(b, p + 1, Len(b)))

\* Spans <<i, j>> of t, from index k on, that read as a numeral.
NumeralSpans(t, k) ==
    {sp \in (k..Len(t)) \X (k..Len(t)) : sp[1] <= sp[2] /\ IsNumeral(SubSeq(t, sp[1], sp[2]))}

\* The leftmost span from k on, and the longest among the leftmost.
LeftmostMaximal(t, k) ==
    CHOOSE sp \in NumeralSpans(t, k) :
        \A other \in NumeralSpans(t, k) :
            \/ sp[1] < other[1]
            \/ (sp[1] = other[1] /\ sp[2] >= other[2])

\* t from k on, each leftmost maximal numeral replaced by its word form.
RECURSIVE ExpectedWords(_, _)
ExpectedWords(t, k) ==
    IF NumeralSpans(t, k) = {} THEN SubSeq(t, k, Len(t))
    ELSE LET sp == LeftmostMaximal(t, k)
         IN  SubSeq(t, k, sp[1] - 1)
             \o format_number(SubSeq(t, sp[1], sp[2]))
             \o ExpectedWords(t, sp[2] + 1)

\* The characters of t, from k on, that lie outside those numerals.
RECURSIVE OutsideNumerals(_, _)
OutsideNumerals(t, k) ==
    IF NumeralSpans(t, k) = {} THEN SubSeq(t, k, Len(t))
    ELSE LET sp == LeftmostMaximal(t, k)
         IN  SubSeq(t, k, sp[1] - 1) \o OutsideNumerals(t, sp[2] + 1)

NumberWords == {NumberWord(c) : c \in Digits \cup {"-", "."}}

\* C7: the result is the text with each leftmost maximal numeral replaced by
\* the word form of exactly that substring; the characters outside the
\* numerals are unchanged and in order.
C7_SubstitutionLocal ==
    pc # "start" =>
        /\ words = ExpectedWords(text, 1)
        /\ SelectSeq(words, LAMBDA c : c \notin NumberWords) = OutsideNumerals(text, 1)

C7_Witness ==
    /\ pc = "substituted"
    /\ text = <<"-", "1", ".", "G">>
    /\ words = <<"U+8D1F", "U+4E00", ".", "G">>

\* C3 as stated: phonemize(s) = phonemize(substitute(s)) for every sentence s.
C3_NumeralEquivalence ==
    pc = "done" => all_phonemes = word_phonemes

\* C3 as amended: the same, for sentences without quotation marks, which
\* phonemize removes before it looks for numerals.
C3_NumeralEquivalenceNoQuotes ==
    (pc = "done" /\ Range(text) \cap QuoteChars = {}) => all_phonemes = word_phonemes

C3_Witness ==
    /\ pc = "done"
    /\ text = <<"-", "1", ".", "1">>
    /\ words = <<"U+8D1F", "U+4E00", "U+70B9", "U+4E00">>
    /\ all_phonemes = word_phonemes
    /\ Len(all_phonemes[1]) = 12
====
